---- MODULE Spec2Model ----
(***************************************************************************)
(* curl_asio (src/curl_asio.hpp): the bridge between the libcurl multi     *)
(* interface ("the engine") and a boost::asio io_service ("the reactor").  *)
(*                                                                         *)
(* Everything runs on the reactor's single thread, so the program is a     *)
(* call stack.  Control is handed to code outside the bridge at five       *)
(* places: curl_multi_add_handle, curl_multi_socket_action (the drive),    *)
(* curl_multi_info_read, the user's on_data_read and the user's on_done.   *)
(* `stack` holds one frame per such call that has not returned yet; one    *)
(* action is one step of the code that is in control (the application or   *)
(* the reactor when the stack is empty, the engine inside add/drive, the   *)
(* user inside data/done), together with all the bridge code that runs     *)
(* until control is handed over again.                                     *)
(*                                                                         *)
(* The engine and the reactor are not part of the repository; they are     *)
(* modelled by their documented contracts:                                 *)
(*  - curl_multi_add_handle fails for a handle that is already added, and  *)
(*    may fail otherwise; it may call the timer callback before it         *)
(*    returns;                                                             *)
(*  - curl_multi_remove_handle may fail; when it succeeds the handle is    *)
(*    out of the multi handle and its queued message is dropped;           *)
(*  - curl_multi_socket_action may fail; inside it the engine calls the    *)
(*    socket, timer and write callbacks and queues one CURLMSG_DONE per    *)
(*    added handle; a write callback that does not return the chunk size   *)
(*    fails (or, for the pause value, pauses) the transfer, which then     *)
(*    receives no more data; the engine does not re-enter the write        *)
(*    callback of a transfer whose write callback has not returned;        *)
(*  - cancel() completes every outstanding wait of the object with         *)
(*    operation_aborted; a wait that has already completed successfully    *)
(*    and whose handler is queued is delivered without error.              *)
(*                                                                         *)
(* Spec is the whole bridge.  TransferSpec is the bridge with an engine    *)
(* that is driven by its timer alone (all transfers, no socket);           *)
(* SocketSpec is the bridge with sockets and a single transfer in use.     *)
(* PairSpec is the bridge with sockets and all transfers, and an           *)
(* application that calls start() and stop() only where they succeed.      *)
(* All take the same actions as Spec; the properties of the transfers'     *)
(* life cycle are checked under TransferSpec, those that need a socket     *)
(* under SocketSpec, those that need a socket and two transfers under      *)
(* PairSpec.  LiveSpec adds the fairness of the reactor and of the         *)
(* returns to a bridge with one transfer, for the progress of the waits.   *)
(***************************************************************************)
EXTENDS Integers, Sequences, FiniteSets, TLC

(* ---- bounds of the model ---- *)
NumTransfers == 2
NumFds == 1
MaxSocks == 1
MaxDepth == 3
MaxWaits == 2
MaxReady == 1
MaxChunk == 2

(* ---- program constants ---- *)
CURL_WRITEFUNC_PAUSE == 268435457
NoSock == 0

CURL_POLL_NONE == {}
CURL_POLL_IN == {"r"}
CURL_POLL_OUT == {"w"}
CURL_POLL_INOUT == {"r", "w"}
CURL_POLL_REMOVE == {"remove"}
PollActions == {CURL_POLL_NONE, CURL_POLL_IN, CURL_POLL_OUT, CURL_POLL_INOUT, CURL_POLL_REMOVE}
Dirs == {"r", "w"}
PollName(action) ==
    CASE action = CURL_POLL_NONE -> "CURL_POLL_NONE"
      [] action = CURL_POLL_IN -> "CURL_POLL_IN"
      [] action = CURL_POLL_OUT -> "CURL_POLL_OUT"
      [] action = CURL_POLL_INOUT -> "CURL_POLL_INOUT"
      [] action = CURL_POLL_REMOVE -> "CURL_POLL_REMOVE"

data_action == {"success", "pause", "abort"}
Results == {"CURLE_OK", "CURLE_WRITE_ERROR"}

Transfers == 1..NumTransfers
Fds == 1..NumFds
Socks == 1..MaxSocks
Chunks == 1..MaxChunk

VARIABLES
    running,        \* transfer::running_
    impl,           \* transfer::impl_ is set
    recursions,     \* transfer::callback_recursions_
    tlock,          \* transfer::lock_ is set
    sockets,        \* implementation::sockets_ : descriptor -> socketinfo (NoSock: no entry)
    transfers,      \* implementation::transfers_
    running_count,  \* implementation::running_
    terminated,     \* implementation::terminated_
    socks,          \* the socketinfo objects and the reactor operations bound to them
    timer,          \* implementation::timer_ : the waits of the deadline timer
    eng,            \* the engine: state of each easy handle in the multi handle
    msgs,           \* the engine: queue of CURLMSG_DONE messages
    socketp,        \* the engine: per-socket pointer set by curl_multi_assign
    stack,          \* calls into engine or user code that have not returned
    ev,             \* the call that has just returned, as its caller observes it
    notified,       \* on_done was called since the engine last took the transfer's handle
    stopped         \* stop() returned true since the engine last took the transfer's handle

vars == <<running, impl, recursions, tlock, sockets, transfers, running_count, terminated,
          socks, timer, eng, msgs, socketp, stack, ev, notified, stopped>>

transfer_vars == <<running, impl, recursions, tlock>>
bridge_vars == <<sockets, transfers, running_count, terminated>>
reactor_vars == <<socks, timer>>
engine_vars == <<eng, msgs, socketp>>
history_vars == <<notified, stopped>>

(* ---- the socketinfo objects ---- *)

\* A socketinfo that is not allocated: no shared_ptr refers to it.
\* pend: outstanding waits per direction; ready: waits that completed without error
\* and whose handler is queued; aborted: a handler completed with operation_aborted
\* is queued.
NoSocketinfo ==
    [fd |-> 0, lock |-> FALSE, requested_action |-> CURL_POLL_NONE,
     pend |-> [d \in Dirs |-> 0], ready |-> [d \in Dirs |-> 0], aborted |-> FALSE]

\* socketinfo::socketinfo: requested_action_(CURL_POLL_NONE), no wait outstanding.
socketinfo(s) == [NoSocketinfo EXCEPT !.fd = s]

Allocated(S, o) == S[o].fd # 0

\* socketinfo::cancel: every outstanding wait completes with operation_aborted.
cancel(S, o) ==
    [S EXCEPT ![o].aborted = @ \/ (\E d \in Dirs : S[o].pend[d] > 0),
              ![o].pend = [d \in Dirs |-> 0]]

\* A set_requested_action that does not cancel the outstanding waits.
set_requested_action_keeps(S, o, action) == [S EXCEPT ![o].requested_action = action]

\* socketinfo::set_requested_action
set_requested_action(S, o, action) ==
    cancel([S EXCEPT ![o].requested_action = action], o)

\* socketinfo::add
add(S, o) == [S EXCEPT ![o].lock = TRUE]

\* socketinfo::remove
remove(S, o) == [cancel(S, o) EXCEPT ![o].lock = FALSE]

\* socketinfo::removed
removed(S, o) == ~S[o].lock

\* socketinfo::async_wait_read / async_wait_write: one more outstanding wait.  The
\* count stops at MaxWaits, which then stands for "MaxWaits or more".
async_wait_dir(S, o, d) == [S EXCEPT ![o].pend[d] = IF @ < MaxWaits THEN @ + 1 ELSE @]

\* An async_wait that cancels on a conflicting request but subscribes only for the
\* direction it was called with.
async_wait_narrow(S, o, action) ==
    LET requested_action == S[o].requested_action
        merge == requested_action = CURL_POLL_INOUT
                 \/ (requested_action # action /\ requested_action # CURL_POLL_NONE)
        S1 == IF merge THEN cancel(S, o) ELSE S
        S2 == IF "r" \in action THEN async_wait_dir(S1, o, "r") ELSE S1
    IN  IF "w" \in action THEN async_wait_dir(S2, o, "w") ELSE S2

\* implementation::async_wait
async_wait(S, o, action) ==
    LET requested_action == S[o].requested_action
        merge == requested_action = CURL_POLL_INOUT
                 \/ (requested_action # action /\ requested_action # CURL_POLL_NONE)
        S1 == IF merge THEN cancel(S, o) ELSE S
        act == IF merge THEN requested_action ELSE action
        S2 == IF "r" \in act THEN async_wait_dir(S1, o, "r") ELSE S1
    IN  IF "w" \in act THEN async_wait_dir(S2, o, "w") ELSE S2

\* The objects a frame of the stack still holds a shared_ptr to.
HeldBy(stk) == {stk[i].o : i \in 1..Len(stk)}

\* The last shared_ptr to a socketinfo is gone: the object is destroyed.
Unreferenced(S, stk, o) ==
    /\ ~S[o].lock
    /\ ~S[o].aborted
    /\ o \notin HeldBy(stk)
    /\ \A d \in Dirs : S[o].pend[d] = 0 /\ S[o].ready[d] = 0

Destroy(S, stk) ==
    [o \in Socks |-> IF Unreferenced(S, stk, o) THEN NoSocketinfo ELSE S[o]]

\* socketinfo::create allocates a new object: the first free slot.
FreeSocks(S) == {o \in Socks : ~Allocated(S, o)}
NewSock(S) == CHOOSE o \in FreeSocks(S) : \A p \in FreeSocks(S) : o <= p

\* A timer_function that does not cancel the outstanding wait.
timer_keep(T) == T

\* deadline_timer::cancel: the outstanding wait completes with operation_aborted.
timer_cancel(T) == [T EXCEPT !.aborted = @ \/ T.pend > 0, !.pend = 0]

\* The handlers of successfully completed waits that the reactor has queued.
RECURSIVE SumReady(_, _)
SumReady(S, os) ==
    IF os = {} THEN 0
    ELSE LET o == CHOOSE x \in os : TRUE
         IN S[o].ready["r"] + S[o].ready["w"] + SumReady(S, os \ {o})
QueuedReady == SumReady(socks, Socks) + timer.ready

(* ---- the call stack ---- *)

\* k: "add" | "drive" | "pcm" | "data" | "done"; t: the transfer (0: none);
\* o: the socketinfo bound to the completion handler (NoSock: none);
\* d: for drive and pcm, the direction that fired ("r", "w"), "timer" for
\*    timer_handler called by the reactor, "inline" for timer_handler called by
\*    timer_function; for done, the result code passed to on_done;
\* n: for data, the size of the chunk.
Frame(k, t, o, d, n) == [k |-> k, t |-> t, o |-> o, d |-> d, n |-> n]

Top == stack[Len(stack)]
Pop == SubSeq(stack, 1, Len(stack) - 1)
Push(f) == Append(stack, f)
Replace(f) == Append(Pop, f)
Is(k) == IF stack = << >> THEN FALSE ELSE Top.k = k

\* The application (between reactor handlers) or the user's callback is running.
InUser == IF stack = << >> THEN TRUE ELSE Top.k \in {"data", "done"}
\* The engine is running: inside curl_multi_add_handle or curl_multi_socket_action.
InEngine == Is("add") \/ Is("drive")
\* Nothing of the bridge, the engine or the user is on the stack: the reactor runs.
Idle == stack = << >>

\* implementation::callback_recursions_: the callback_protector scopes that are open.
callback_recursions == Cardinality({i \in 1..Len(stack) : stack[i].k \in {"drive", "pcm"}})

\* What the caller of the call that has just returned observes: op the function, t the
\* transfer (0: none), a its argument or branch, ok / ret its boolean / integer result.
Event(op, t, a, ok, ret) == [op |-> op, t |-> t, a |-> a, ok |-> ok, ret |-> ret]
NoEvent == Event("", 0, "", TRUE, 0)

Init ==
    /\ running = [t \in Transfers |-> FALSE]
    /\ impl = [t \in Transfers |-> TRUE]
    /\ recursions = [t \in Transfers |-> 0]
    /\ tlock = [t \in Transfers |-> FALSE]
    /\ sockets = [s \in Fds |-> NoSock]
    /\ transfers = {}
    /\ running_count = 0
    /\ terminated = FALSE
    /\ socks = [o \in Socks |-> NoSocketinfo]
    /\ timer = [pend |-> 0, ready |-> 0, aborted |-> FALSE]
    /\ eng = [t \in Transfers |-> "out"]
    /\ msgs = << >>
    /\ socketp = [s \in Fds |-> NoSock]
    /\ stack = << >>
    /\ ev = NoEvent
    /\ notified = [t \in Transfers |-> FALSE]
    /\ stopped = [t \in Transfers |-> FALSE]

(* ---- the engine's handle registry ---- *)

\* curl_multi_add_handle accepts only a handle that is not in the multi handle.
CanAdd(t) == eng[t] = "out"

\* A curl_multi_remove_handle that would leave the handle's queued message behind.
PurgeNothing(M, t) == M

\* curl_multi_remove_handle, when it succeeds: the handle leaves the multi handle and
\* a message it has queued is dropped.
Purge(M, t) == SelectSeq(M, LAMBDA m : m[1] # t)

\* The handles the engine still works on: what the drive reports in running_.
EngineRunning == Cardinality({t \in Transfers : eng[t] \in {"active", "paused", "failed"}})

(* ---- implementation::add_transfer / remove_transfer ---- *)

\* A remove_transfer that empties the active set.
remove_transfer_clears(t, rc_ok, M) ==
    [ret |-> rc_ok,
     eng |-> IF rc_ok THEN [eng EXCEPT ![t] = "out"] ELSE eng,
     msgs |-> IF rc_ok THEN Purge(M, t) ELSE M,
     transfers |-> IF rc_ok THEN {} ELSE transfers,
     tlock |-> IF rc_ok /\ t \in transfers THEN [tlock EXCEPT ![t] = FALSE] ELSE tlock]

\* implementation::remove_transfer, with rc_ok the engine's answer; M is the message
\* queue at the call.  The values of eng, msgs, transfers_ and lock_ after the call.
remove_transfer(t, rc_ok, M) ==
    [ret |-> rc_ok,
     eng |-> IF rc_ok THEN [eng EXCEPT ![t] = "out"] ELSE eng,
     msgs |-> IF rc_ok THEN Purge(M, t) ELSE M,
     transfers |-> IF rc_ok THEN transfers \ {t} ELSE transfers,
     tlock |-> IF rc_ok /\ t \in transfers THEN [tlock EXCEPT ![t] = FALSE] ELSE tlock]

\* An add_transfer that does not look at terminated_.
add_transfer_registers_terminated(t, accept) == CanAdd(t) /\ accept

\* implementation::add_transfer up to the return of curl_multi_add_handle: whether the
\* handle gets registered (terminated_ is checked first, then the engine decides).
add_transfer_registers(t, accept) == ~terminated /\ CanAdd(t) /\ accept

(* ---- transfer::start ---- *)

\* A first test of start() that leaves out running_.
start_refuses_in_callback(t) == ~impl[t] \/ recursions[t] > 0

\* The first test of start().
start_refuses(t) == running[t] \/ ~impl[t] \/ recursions[t] > 0

\* start() returns false at its first test.
start_refused(t) ==
    /\ InUser
    /\ start_refuses(t)
    /\ ev' = Event("start", t, "refused", FALSE, 0)
    /\ UNCHANGED <<transfer_vars, bridge_vars, reactor_vars, engine_vars, stack, history_vars>>

\* start() passes its first test; init() fails (curl_easy_init) or add_transfer
\* returns false without registering.
start_rejected(t) ==
    /\ InUser
    /\ ~start_refuses(t)
    /\ \E init_ok \in BOOLEAN, accept \in BOOLEAN :
          ~(init_ok /\ add_transfer_registers(t, accept))
    /\ ev' = Event("start", t, "rejected", FALSE, 0)
    /\ UNCHANGED <<transfer_vars, bridge_vars, reactor_vars, engine_vars, stack, history_vars>>

\* start() passes its first test and curl_multi_add_handle takes the handle: the
\* engine is now inside curl_multi_add_handle.
start_registers(t) ==
    /\ InUser
    /\ Len(stack) < MaxDepth
    /\ ~start_refuses(t)
    /\ add_transfer_registers(t, TRUE)
    /\ eng' = [eng EXCEPT ![t] = "active"]
    /\ stack' = Push(Frame("add", t, NoSock, "", 0))
    /\ notified' = [notified EXCEPT ![t] = FALSE]
    /\ stopped' = [stopped EXCEPT ![t] = FALSE]
    /\ ev' = NoEvent
    /\ UNCHANGED <<transfer_vars, bridge_vars, reactor_vars, msgs, socketp>>

\* curl_multi_add_handle returns CURLM_OK: the rest of add_transfer and of start().
start_return ==
    /\ Is("add")
    /\ LET t == Top.t IN
        /\ transfers' = transfers \cup {t}
        /\ tlock' = [tlock EXCEPT ![t] = TRUE]
        /\ running' = [running EXCEPT ![t] = TRUE]
        /\ ev' = Event("start", t, "started", TRUE, 0)
    /\ stack' = Pop
    /\ UNCHANGED <<impl, recursions, sockets, running_count, terminated, reactor_vars,
                   engine_vars, history_vars>>

start(t) == start_refused(t) \/ start_rejected(t) \/ start_registers(t)

(* ---- transfer::stop ---- *)

\* The first test of stop().
stop_refuses(t) == ~running[t] \/ ~impl[t]

stop_refused(t) ==
    /\ InUser
    /\ stop_refuses(t)
    /\ ev' = Event("stop", t, "refused", FALSE, 0)
    /\ UNCHANGED <<transfer_vars, bridge_vars, reactor_vars, engine_vars, stack, history_vars>>

\* A stop() that unregisters from inside the transfer's own data callback.
stop_deferred_removes(t) ==
    /\ InUser
    /\ ~stop_refuses(t)
    /\ recursions[t] > 0
    /\ LET r == remove_transfer(t, TRUE, msgs) IN
        /\ eng' = r.eng
        /\ msgs' = r.msgs
        /\ transfers' = r.transfers
        /\ tlock' = r.tlock
    /\ running' = [running EXCEPT ![t] = FALSE]
    /\ stopped' = [stopped EXCEPT ![t] = TRUE]
    /\ ev' = Event("stop", t, "deferred", TRUE, 0)
    /\ UNCHANGED <<impl, recursions, sockets, running_count, terminated, reactor_vars,
                   socketp, stack, notified>>

\* A stop() from inside the data callback that leaves running_ as it is.
stop_deferred_keeps_running(t) ==
    /\ InUser
    /\ ~stop_refuses(t)
    /\ recursions[t] > 0
    /\ stopped' = [stopped EXCEPT ![t] = TRUE]
    /\ ev' = Event("stop", t, "deferred", TRUE, 0)
    /\ UNCHANGED <<transfer_vars, bridge_vars, reactor_vars, engine_vars, stack, notified>>

\* stop() from inside the transfer's own data callback.
stop_deferred(t) ==
    /\ InUser
    /\ ~stop_refuses(t)
    /\ recursions[t] > 0
    /\ running' = [running EXCEPT ![t] = FALSE]
    /\ stopped' = [stopped EXCEPT ![t] = TRUE]
    /\ ev' = Event("stop", t, "deferred", TRUE, 0)
    /\ UNCHANGED <<impl, recursions, tlock, bridge_vars, reactor_vars, engine_vars, stack, notified>>

\* stop() anywhere else: remove_transfer decides.
stop_immediate(t) ==
    /\ InUser
    /\ ~stop_refuses(t)
    /\ recursions[t] = 0
    /\ \E rc_ok \in BOOLEAN :
         LET r == remove_transfer(t, rc_ok, msgs) IN
            /\ eng' = r.eng
            /\ msgs' = r.msgs
            /\ transfers' = r.transfers
            /\ tlock' = r.tlock
            /\ running' = IF r.ret THEN [running EXCEPT ![t] = FALSE] ELSE running
            /\ stopped' = IF r.ret THEN [stopped EXCEPT ![t] = TRUE] ELSE stopped
            /\ ev' = Event("stop", t, "immediate", r.ret, 0)
    /\ UNCHANGED <<impl, recursions, sockets, running_count, terminated, reactor_vars,
                   socketp, stack, notified>>

stop(t) == stop_refused(t) \/ stop_deferred(t) \/ stop_immediate(t)

(* ---- implementation::terminate (and transfer::terminate) ---- *)

\* Called by ~curl_asio, from the application.
terminate ==
    /\ Idle
    /\ ~terminated
    /\ terminated' = TRUE
    /\ timer' = timer_cancel(timer)
    /\ LET cancelled == [o \in Socks |->
                            IF \E s \in Fds : sockets[s] = o THEN cancel(socks, o)[o]
                            ELSE socks[o]]
       IN socks' = Destroy(cancelled, stack)
    /\ sockets' = [s \in Fds |-> NoSock]
    /\ impl' = [t \in Transfers |-> IF t \in transfers THEN FALSE ELSE impl[t]]
    /\ transfers' = {}
    /\ ev' = Event("terminate", 0, "", TRUE, 0)
    /\ UNCHANGED <<running, recursions, tlock, running_count, engine_vars, stack, history_vars>>

(* ---- the engine inside curl_multi_socket_action / curl_multi_add_handle ---- *)

\* The write callback of t has been called and has not returned.
InDataCallback(t) == \E i \in 1..Len(stack) : stack[i].k = "data" /\ stack[i].t = t

\* implementation::socket_function (through curl_socket_function): the engine declares
\* or revokes its interest in descriptor s; the socketinfo it passes is socketp[s].
\* create_ok: whether socketinfo::create succeeds (getsockopt, getsockname, the family).
\* Observed: "create failed", and the request the socketinfo held when this one differs
\* from it.
socket_function(s, action) ==
    /\ Is("drive")
    /\ \E create_ok \in BOOLEAN :
        LET sock == socketp[s]
            creates == action # CURL_POLL_REMOVE /\ sock = NoSock /\ create_ok
            o == IF sock # NoSock THEN sock
                 ELSE IF creates THEN NewSock(socks) ELSE NoSock
            S0 == IF creates THEN [socks EXCEPT ![o] = socketinfo(s)] ELSE socks
            inserts == action # CURL_POLL_REMOVE /\ sockets[s] = NoSock /\ o # NoSock
            S1 == IF inserts THEN add(S0, o) ELSE S0
            map == IF inserts THEN [sockets EXCEPT ![s] = o] ELSE sockets
            watches == map[s] # NoSock /\ action # CURL_POLL_NONE
            S2 == IF watches
                  THEN async_wait(set_requested_action(S1, map[s], action), map[s], action)
                  ELSE S1
        IN  /\ sock # NoSock => create_ok
            /\ creates => FreeSocks(socks) # {}
            /\ IF action = CURL_POLL_REMOVE
               THEN /\ socks' = Destroy(IF sock # NoSock THEN remove(socks, sock) ELSE socks, stack)
                    /\ socketp' = [socketp EXCEPT ![s] = NoSock]
                    /\ sockets' = [sockets EXCEPT ![s] = NoSock]
               ELSE /\ socks' = S2
                    /\ socketp' = IF inserts THEN [socketp EXCEPT ![s] = o] ELSE socketp
                    /\ sockets' = map
            /\ ev' = IF action # CURL_POLL_REMOVE /\ sock = NoSock /\ ~create_ok
                     THEN Event("socket_function", 0, "create failed", TRUE, 0)
                     ELSE IF action # CURL_POLL_REMOVE /\ watches
                             /\ S1[map[s]].requested_action \notin {CURL_POLL_NONE, action}
                     THEN Event("socket_function", 0, PollName(S1[map[s]].requested_action), TRUE, 0)
                     ELSE NoEvent
    /\ UNCHANGED <<transfer_vars, transfers, running_count, terminated, timer, eng, msgs,
                   stack, history_vars>>

\* implementation::timer_function with timeout_ms > 0.
timer_function_later ==
    /\ InEngine
    /\ timer' = [timer_cancel(timer) EXCEPT !.pend = 1]
    /\ ev' = NoEvent
    /\ UNCHANGED <<transfer_vars, bridge_vars, socks, engine_vars, stack, history_vars>>

\* implementation::timer_function with timeout_ms <= 0: timer_handler is called with no
\* error and calls curl_multi_socket_action(CURL_SOCKET_TIMEOUT).
timer_function_now ==
    /\ InEngine
    /\ Len(stack) < MaxDepth
    /\ timer' = timer_cancel(timer)
    /\ stack' = Push(Frame("drive", 0, NoSock, "inline", 0))
    /\ ev' = NoEvent
    /\ UNCHANGED <<transfer_vars, bridge_vars, socks, engine_vars, history_vars>>

\* A write_function that does not look at running_ after the callback.
write_result_by_action(size, action, run) ==
    CASE action = "success" -> size
      [] action = "pause" -> CURL_WRITEFUNC_PAUSE
      [] action = "abort" -> 0

\* transfer::write_function, the value returned to the engine.
write_result(size, action, run) ==
    IF ~run THEN 0
    ELSE CASE action = "success" -> size
           [] action = "pause" -> CURL_WRITEFUNC_PAUSE
           [] action = "abort" -> 0

\* What the engine makes of the value the write callback returns for `size` bytes.
AfterWrite(size, ret) ==
    IF ret = size THEN "active"
    ELSE IF ret = CURL_WRITEFUNC_PAUSE THEN "paused" ELSE "failed"

\* transfer::write_function (through curl_write_function) up to the call of
\* on_data_read: the engine delivers size bytes of transfer t.
write_function_call(t, size) ==
    /\ Is("drive")
    /\ Len(stack) < MaxDepth
    /\ eng[t] = "active" /\ ~InDataCallback(t)
    /\ impl[t]
    /\ recursions' = [recursions EXCEPT ![t] = @ + 1]
    /\ stack' = Push(Frame("data", t, NoSock, "", size))
    /\ ev' = NoEvent
    /\ UNCHANGED <<running, impl, tlock, bridge_vars, reactor_vars, engine_vars, history_vars>>

\* transfer::write_function when impl_ is gone or on_data_read is not set.
write_function_skip(t, size) ==
    /\ Is("drive")
    /\ eng[t] = "active" /\ ~InDataCallback(t)
    /\ ev' = Event("write_function", t, "", TRUE, size)
    /\ UNCHANGED <<transfer_vars, bridge_vars, reactor_vars, engine_vars, stack, history_vars>>

\* on_data_read returns `action`: the rest of transfer::write_function.
write_function_return(action) ==
    /\ Is("data")
    /\ LET t == Top.t
           size == Top.n
           ret == write_result(size, action, running[t])
       IN /\ recursions' = [recursions EXCEPT ![t] = @ - 1]
          /\ eng' = [eng EXCEPT ![t] = IF @ = "active" THEN AfterWrite(size, ret) ELSE @]
          /\ ev' = Event("write_function", t, action, TRUE, ret)
    /\ stack' = Pop
    /\ UNCHANGED <<running, impl, tlock, bridge_vars, reactor_vars, msgs, socketp, history_vars>>

\* The engine finishes a transfer and queues its CURLMSG_DONE.
engine_completes(t, result) ==
    /\ Is("drive")
    /\ eng[t] \in {"active", "paused", "failed"} /\ ~InDataCallback(t)
    /\ eng[t] = "failed" => result = "CURLE_WRITE_ERROR"
    /\ eng' = [eng EXCEPT ![t] = "done"]
    /\ msgs' = Append(msgs, <<t, result>>)
    /\ ev' = NoEvent
    /\ UNCHANGED <<transfer_vars, bridge_vars, reactor_vars, socketp, stack, history_vars>>

(* ---- the return of curl_multi_socket_action ---- *)

\* An async_wait_complete that does not subscribe again.
after_drive_cancels(f, rc_ok, stk) ==
    IF f.d \in Dirs /\ rc_ok
    THEN Destroy(cancel(socks, f.o), stk)
    ELSE Destroy(socks, stk)

\* What is left of async_wait_complete once process_curl_messages is through (or was
\* skipped, rc_ok false); nothing is left of timer_handler.  f is the frame of the
\* drive, stk the stack after the return.  The value of socks.
after_drive(f, rc_ok, stk) ==
    IF f.d \in Dirs /\ rc_ok
    THEN Destroy(IF running_count > 0 THEN async_wait(socks, f.o, {f.d})
                 ELSE cancel(socks, f.o), stk)
    ELSE Destroy(socks, stk)

\* What is observed when the handler of frame f returns: for async_wait_complete the
\* direction that had fired and whether the drive call succeeded.
completion_event(f, rc_ok) ==
    IF f.d \in Dirs THEN Event("async_wait_complete", 0, f.d, rc_ok, 0) ELSE NoEvent

\* curl_multi_socket_action returns an error: process_curl_messages is skipped.
drive_fails ==
    /\ Is("drive")
    /\ stack' = Pop
    /\ socks' = after_drive(Top, FALSE, Pop)
    /\ ev' = completion_event(Top, FALSE)
    /\ UNCHANGED <<transfer_vars, bridge_vars, timer, engine_vars, history_vars>>

\* curl_multi_socket_action returns rc <= CURLM_OK and the running count:
\* process_curl_messages starts.
drive_returns ==
    /\ Is("drive")
    /\ running_count' = EngineRunning
    /\ stack' = Replace([Top EXCEPT !.k = "pcm"])
    /\ ev' = NoEvent
    /\ UNCHANGED <<transfer_vars, sockets, transfers, terminated, reactor_vars, engine_vars,
                   history_vars>>

(* ---- implementation::process_curl_messages and transfer::handle_done ---- *)

\* curl_multi_info_read returns a CURLMSG_DONE: remove_transfer, then handle_done up
\* to the call of on_done.
process_curl_messages_on_done ==
    /\ Is("pcm")
    /\ msgs # << >>
    /\ Len(stack) < MaxDepth
    /\ \E rc_ok \in BOOLEAN :
        LET t == Head(msgs)[1]
            r == remove_transfer(t, rc_ok, Tail(msgs))
        IN  /\ eng' = r.eng
            /\ msgs' = r.msgs
            /\ transfers' = r.transfers
            /\ tlock' = r.tlock
            /\ stack' = Push(Frame("done", t, NoSock, Head(msgs)[2], 0))
            /\ notified' = [notified EXCEPT ![t] = TRUE]
    /\ ev' = NoEvent
    /\ UNCHANGED <<running, impl, recursions, sockets, running_count, terminated,
                   reactor_vars, socketp, stopped>>

\* The same with on_done not set: handle_done only clears running_.
process_curl_messages_no_on_done ==
    /\ Is("pcm")
    /\ msgs # << >>
    /\ \E rc_ok \in BOOLEAN :
        LET t == Head(msgs)[1]
            r == remove_transfer(t, rc_ok, Tail(msgs))
        IN  /\ eng' = r.eng
            /\ msgs' = r.msgs
            /\ transfers' = r.transfers
            /\ tlock' = r.tlock
            /\ running' = [running EXCEPT ![t] = FALSE]
    /\ ev' = NoEvent
    /\ UNCHANGED <<impl, recursions, sockets, running_count, terminated, reactor_vars,
                   socketp, stack, history_vars>>

\* A handle_done that leaves running_ as it is.
handle_done_keeps_running ==
    /\ Is("done")
    /\ stack' = Pop
    /\ ev' = NoEvent
    /\ UNCHANGED <<transfer_vars, bridge_vars, reactor_vars, engine_vars, history_vars>>

\* on_done returns: the rest of handle_done.
handle_done_return ==
    /\ Is("done")
    /\ running' = [running EXCEPT ![Top.t] = FALSE]
    /\ stack' = Pop
    /\ ev' = NoEvent
    /\ UNCHANGED <<impl, recursions, tlock, bridge_vars, reactor_vars, engine_vars, history_vars>>

\* curl_multi_info_read returns NULL: process_curl_messages returns, and its caller
\* (async_wait_complete, timer_handler) finishes.
process_curl_messages_end ==
    /\ Is("pcm")
    /\ msgs = << >>
    /\ stack' = Pop
    /\ socks' = after_drive(Top, TRUE, Pop)
    /\ ev' = completion_event(Top, TRUE)
    /\ UNCHANGED <<transfer_vars, bridge_vars, timer, engine_vars, history_vars>>

(* ---- the reactor ---- *)

\* The descriptor becomes readable / writable: the outstanding waits of that direction
\* complete and their handlers are queued.  The reactor polls while fewer than MaxReady
\* handlers are queued.
socket_ready(o, d) ==
    /\ Idle
    /\ socks[o].pend[d] > 0
    /\ QueuedReady < MaxReady
    /\ socks' = [socks EXCEPT ![o].ready[d] = @ + socks[o].pend[d], ![o].pend[d] = 0]
    /\ ev' = NoEvent
    /\ UNCHANGED <<transfer_vars, bridge_vars, timer, engine_vars, stack, history_vars>>

\* The deadline passes: the handler of the timer wait is queued.
timer_expires ==
    /\ Idle
    /\ timer.pend > 0
    /\ QueuedReady < MaxReady
    /\ timer' = [timer EXCEPT !.ready = @ + 1, !.pend = 0]
    /\ ev' = NoEvent
    /\ UNCHANGED <<transfer_vars, bridge_vars, socks, engine_vars, stack, history_vars>>

\* implementation::async_wait_complete with no error, up to curl_multi_socket_action.
async_wait_complete(o, d) ==
    /\ Idle
    /\ socks[o].ready[d] > 0
    /\ socks' = [socks EXCEPT ![o].ready[d] = @ - 1]
    /\ stack' = Push(Frame("drive", 0, o, d, 0))
    /\ ev' = NoEvent
    /\ UNCHANGED <<transfer_vars, bridge_vars, timer, engine_vars, history_vars>>

\* An async_wait_complete that does not look at the error code.
async_wait_complete_ignores_error(o) ==
    /\ Idle
    /\ socks[o].aborted
    /\ socks' = [socks EXCEPT ![o].aborted = FALSE]
    /\ stack' = Push(Frame("drive", 0, o, "r", 0))
    /\ ev' = Event("async_wait_complete", 0, "cancelled", TRUE, 0)
    /\ UNCHANGED <<transfer_vars, bridge_vars, timer, engine_vars, history_vars>>

\* implementation::async_wait_complete with operation_aborted; `more`: another such
\* handler of the object is queued behind it.
async_wait_complete_cancelled(o) ==
    /\ Idle
    /\ socks[o].aborted
    /\ \E more \in BOOLEAN :
         socks' = Destroy([socks EXCEPT ![o].aborted = more], stack)
    /\ ev' = Event("async_wait_complete", 0, "cancelled", TRUE, 0)
    /\ UNCHANGED <<transfer_vars, bridge_vars, timer, engine_vars, stack, history_vars>>

\* implementation::timer_handler with no error, up to curl_multi_socket_action.
timer_handler ==
    /\ Idle
    /\ timer.ready > 0
    /\ timer' = [timer EXCEPT !.ready = @ - 1]
    /\ stack' = Push(Frame("drive", 0, NoSock, "timer", 0))
    /\ ev' = NoEvent
    /\ UNCHANGED <<transfer_vars, bridge_vars, socks, engine_vars, history_vars>>

\* implementation::timer_handler with operation_aborted.
timer_handler_cancelled ==
    /\ Idle
    /\ timer.aborted
    /\ \E more \in BOOLEAN : timer' = [timer EXCEPT !.aborted = more]
    /\ ev' = Event("timer_handler", 0, "cancelled", TRUE, 0)
    /\ UNCHANGED <<transfer_vars, bridge_vars, socks, engine_vars, stack, history_vars>>

\* The operations of the transfers TT and what the engine does on their behalf.
TransferStep(TT) ==
    \/ \E t \in TT : start(t) \/ stop(t)
    \/ start_return
    \/ terminate
    \/ \E t \in TT, size \in Chunks :
          write_function_call(t, size) \/ write_function_skip(t, size)
    \/ \E action \in data_action : write_function_return(action)
    \/ \E t \in TT, result \in Results : engine_completes(t, result)
    \/ process_curl_messages_on_done
    \/ process_curl_messages_no_on_done
    \/ handle_done_return

\* The engine's timer and the drives it causes.
TimerStep ==
    \/ timer_function_later
    \/ timer_function_now
    \/ drive_fails
    \/ drive_returns
    \/ process_curl_messages_end
    \/ timer_expires
    \/ timer_handler
    \/ timer_handler_cancelled

\* The engine's sockets and the drives they cause.
SocketStep ==
    \/ \E s \in Fds, action \in PollActions : socket_function(s, action)
    \/ \E o \in Socks, d \in Dirs : socket_ready(o, d) \/ async_wait_complete(o, d)
    \/ \E o \in Socks : async_wait_complete_cancelled(o)

Next == TransferStep(Transfers) \/ TimerStep \/ SocketStep

Spec == Init /\ [][Next]_vars

\* The transfers with an engine that is driven by its timer alone (it opens no socket).
TransferNext == TransferStep(Transfers) \/ TimerStep

TransferSpec == Init /\ [][TransferNext]_vars

\* The sockets with a single transfer in use.
SocketNext == TransferStep({1}) \/ TimerStep \/ SocketStep

SocketSpec == Init /\ [][SocketNext]_vars

\* All transfers and the sockets, with an application that starts transfers between two
\* handlers of the reactor and calls start() and stop() only where they pass their first
\* test, callbacks that are set, and an engine that asks for positive timeouts and
\* whose drive calls succeed.
PairNext ==
    \/ \E t \in Transfers : (Idle /\ start_registers(t)) \/ stop_deferred(t) \/ stop_immediate(t)
    \/ start_return
    \/ \E t \in Transfers, size \in Chunks : write_function_call(t, size)
    \/ \E action \in data_action : write_function_return(action)
    \/ \E t \in Transfers, result \in Results : engine_completes(t, result)
    \/ process_curl_messages_on_done
    \/ handle_done_return
    \/ drive_returns
    \/ process_curl_messages_end
    \/ timer_function_later
    \/ timer_expires
    \/ timer_handler
    \/ timer_handler_cancelled
    \/ SocketStep

PairSpec == Init /\ [][PairNext]_vars

\* A handler or a call that is on the stack comes to its end.
Advance ==
    \/ start_return
    \/ drive_returns
    \/ process_curl_messages_on_done
    \/ process_curl_messages_end
    \/ handle_done_return

\* One transfer, the timer and the sockets, for the progress of the waits: the
\* application starts and stops the transfer between two handlers, every callback
\* returns and the engine's calls succeed (after a drive that fails the engine has
\* reported nothing, and async_wait_complete subscribes for nothing).
LiveNext ==
    \/ Idle /\ start_registers(1)
    \/ Idle /\ stop_immediate(1)
    \/ \E result \in Results : engine_completes(1, result)
    \/ Advance
    \/ \E s \in Fds, action \in PollActions : socket_function(s, action)
    \/ \E o \in Socks, d \in Dirs : socket_ready(o, d) \/ async_wait_complete(o, d)
    \/ \E o \in Socks : async_wait_complete_cancelled(o)
    \/ timer_function_later
    \/ timer_expires
    \/ timer_handler
    \/ timer_handler_cancelled

\* Fairness.  Every call on the stack returns (the code has no loop but the one over the
\* engine's messages, and curl_multi_socket_action returns); the reactor runs every
\* handler it has queued (io_service::run takes them in turn); and a descriptor is ready
\* again and again, so that a wait that is outstanding whenever the reactor polls does
\* complete.
LiveSpec ==
    /\ Init
    /\ [][LiveNext]_vars
    /\ WF_vars(Advance)
    /\ \A o \in Socks, d \in Dirs :
          SF_vars(socket_ready(o, d)) /\ SF_vars(async_wait_complete(o, d))
    /\ SF_vars(timer_handler)

(* ---- properties ---- *)

\* The step is a call of on_done for transfer t.
OnDoneCalled(t) ==
    /\ Len(stack') = Len(stack) + 1
    /\ stack'[Len(stack')].k = "done"
    /\ stack'[Len(stack')].t = t

\* C1: between one successful start() of a transfer and the next, on_done is called at
\* most once: whenever on_done is called for a transfer, it has not been called since
\* the engine last took the transfer's handle in start().
C1_OnDoneAtMostOncePerStart ==
    [][\A t \in Transfers : OnDoneCalled(t) => ~notified[t]]_vars

\* C1 witness: on_done is running for a transfer, and every transfer has been notified
\* since its handle was last taken.
C1_Witness ==
    /\ Is("done")
    /\ \A u \in Transfers : notified[u]

\* The engine's socket callback asks to watch descriptor s for `action`, and s is in the
\* descriptor map.
Watch(s, action) == socket_function(s, action) /\ sockets[s] # NoSock

\* C2 (as stated): once terminate() has returned, no handler drives the engine, so that
\* nothing of the engine, of process_curl_messages or of on_done runs, the descriptor
\* map stays empty and no wait is outstanding on a socket or on the timer.
C2_NothingAfterTerminate ==
    terminated =>
        /\ stack = << >>
        /\ \A s \in Fds : sockets[s] = NoSock
        /\ timer.pend = 0
        /\ \A o \in Socks, d \in Dirs : socks[o].pend[d] = 0

\* C3 (as stated): when the socket callback asks for watch-write on a descriptor whose
\* socketinfo holds a watch-read request, a read wait and a write wait are outstanding
\* afterwards.
C3_ReadThenWriteWatchesBoth ==
    [][\A s \in Fds :
        (Watch(s, CURL_POLL_OUT) /\ socks[sockets[s]].requested_action = CURL_POLL_IN)
        => \A d \in Dirs : socks'[sockets[s]].pend[d] > 0]_vars

\* C3 (amended): a watch request replaces the one the socketinfo held: afterwards the
\* socketinfo holds the new request and exactly the waits of the new request are
\* outstanding, one per direction asked for (watch-write after watch-read leaves the
\* write wait alone; watch-both leaves a read wait and a write wait).
C3_LaterRequestReplaces ==
    [][\A s \in Fds, action \in {CURL_POLL_IN, CURL_POLL_OUT, CURL_POLL_INOUT} :
        Watch(s, action)
        => /\ sockets'[s] = sockets[s]
           /\ socks'[sockets[s]].requested_action = action
           /\ \A d \in Dirs : socks'[sockets[s]].pend[d] = IF d \in action THEN 1 ELSE 0]_vars

\* C3 witness: the socket callback has just asked for watch-write on a socketinfo that
\* held watch-read; only the write wait is outstanding and the read wait was aborted.
C3_Witness ==
    /\ ev.op = "socket_function" /\ ev.a = "CURL_POLL_IN"
    /\ \E o \in Socks :
        /\ socks[o].requested_action = CURL_POLL_OUT
        /\ socks[o].pend = [d \in Dirs |-> IF d = "w" THEN 1 ELSE 0]
        /\ socks[o].aborted

\* C4 (as stated): stop() on a running transfer from inside its own data callback
\* returns true and leaves running() false with the transfer still registered and in
\* the active set; stop() on a running transfer anywhere else leaves it unregistered
\* and out of the active set.
C4_StopDefersOrUnregisters ==
    [][\A t \in Transfers :
        (stop(t) /\ running[t])
        => IF recursions[t] > 0
           THEN ev'.ok /\ ~running'[t] /\ eng'[t] # "out" /\ t \in transfers'
           ELSE eng'[t] = "out" /\ t \notin transfers']_vars

\* C4 (amended): stop() on a running transfer with a live bridge, from inside its own
\* data callback: as stated.  Anywhere else it asks the engine to unregister: when
\* stop() returns true the transfer is unregistered, out of the active set and not
\* running; when the engine rejects, stop() returns false and nothing has changed.
C4_StopDefersOrAsksEngine ==
    [][\A t \in Transfers :
        (stop(t) /\ running[t] /\ impl[t])
        => /\ ev'.op = "stop" /\ ev'.t = t
           /\ IF recursions[t] > 0
              THEN /\ ev'.ok /\ ~running'[t]
                   /\ eng[t] # "out" /\ t \in transfers
                   /\ UNCHANGED <<eng, transfers, tlock, msgs>>
              ELSE IF ev'.ok
              THEN eng'[t] = "out" /\ t \notin transfers' /\ ~tlock'[t] /\ ~running'[t]
              ELSE UNCHANGED <<running, eng, transfers, tlock, msgs>>]_vars

\* C4 witness: inside its own data callback a transfer has just been stopped: stop()
\* returned true, the transfer is not running, and it is still registered and in the
\* active set.
C4_Witness ==
    /\ ev.op = "stop" /\ ev.a = "deferred" /\ ev.ok
    /\ Is("data") /\ Top.t = ev.t
    /\ ~running[ev.t] /\ eng[ev.t] = "active" /\ ev.t \in transfers /\ tlock[ev.t]

\* C5: start() on a transfer that is running or that is inside its own data callback
\* returns false and leaves the running flags, the active set and the engine's
\* registrations as they were; so does stop() on a transfer that is not running or
\* whose bridge reference is gone.
C5_MisuseIsPureFailure ==
    [][\A t \in Transfers :
        /\ (start(t) /\ (running[t] \/ recursions[t] > 0))
           => /\ ev'.op = "start" /\ ev'.t = t /\ ~ev'.ok
              /\ UNCHANGED <<running, transfers, tlock, eng, msgs, stack>>
        /\ (stop(t) /\ (~running[t] \/ ~impl[t]))
           => /\ ev'.op = "stop" /\ ev'.t = t /\ ~ev'.ok
              /\ UNCHANGED <<running, transfers, tlock, eng, msgs, stack>>]_vars

\* C5 witness: inside its own data callback a transfer that is no longer running (it
\* was stopped there) has just been refused by start().
C5_Witness ==
    /\ ev.op = "start" /\ ev.a = "refused" /\ ~ev.ok
    /\ Is("data") /\ Top.t = ev.t
    /\ ~running[ev.t] /\ stopped[ev.t] /\ recursions[ev.t] > 0

Returns(k) == Is(k) /\ stack' = Pop

\* The timer callback of the engine is called in this step.
TimerCallback == InEngine /\ (timer_function_later \/ timer_function_now)

\* What C7 says of a timer callback with timeout > 0 and of a timer callback that
\* arrives while a wait is outstanding: timeout > 0 leaves the stack alone (no drive)
\* and one wait outstanding; a timer callback aborts the wait that is outstanding
\* without queueing its handler; the handler of an aborted wait does not drive.
TimerDefersAndCancels ==
    /\ timer_function_later => (stack' = stack /\ timer'.pend = 1)
    /\ (TimerCallback /\ timer.pend > 0) => (timer'.aborted /\ timer'.ready = timer.ready)
    /\ timer_handler_cancelled => (stack' = stack /\ UNCHANGED <<bridge_vars, engine_vars>>)

\* A timer callback with timeout <= 0 calls curl_multi_socket_action before it returns
\* and leaves no wait outstanding.
TimerDrivesInline ==
    timer_function_now
    => (stack' = Push(Frame("drive", 0, NoSock, "inline", 0)) /\ timer'.pend = 0)

C8_OnDoneAfterUnregistration ==
    [][\A t \in Transfers :
        OnDoneCalled(t) => (eng'[t] = "out" /\ t \notin transfers')]_vars

\* C8 (amended): after a successful drive call process_curl_messages returns with the
\* queue empty; on_done is called for the transfer of the first message, with that
\* message's result code, after the bridge has asked the engine to unregister the
\* handle: when the engine accepts, the handle is out of the engine and of the active
\* set; when it rejects, both are as they were and on_done is called all the same; the
\* other messages stay queued in their order; the transfer is not running once
\* handle_done has returned.
C8_CompletionDispatch ==
    [][/\ \A t \in Transfers :
            OnDoneCalled(t)
            => /\ Is("pcm") /\ msgs # << >> /\ Head(msgs)[1] = t
               /\ stack'[Len(stack')].d = Head(msgs)[2]
               /\ msgs' = Tail(msgs)
               /\ \/ eng'[t] = "out" /\ transfers' = transfers \ {t}
                  \/ UNCHANGED <<eng, transfers>>
       /\ Returns("done") => ~running'[Top.t]
       /\ Returns("pcm") => msgs' = << >>]_vars

\* C8 witness: on_done is running for a transfer with the result code of its message,
\* the transfer is out of the engine and of the active set, and the message of the
\* other transfer is still queued.
C8_Witness ==
    /\ Is("done") /\ Top.d = "CURLE_WRITE_ERROR"
    /\ eng[Top.t] = "out" /\ Top.t \notin transfers /\ running[Top.t]
    /\ Len(msgs) = 1 /\ msgs[1][1] # Top.t

\* The step is a call of on_data_read for transfer t.
OnDataReadCalled(t) ==
    /\ Len(stack') = Len(stack) + 1
    /\ stack'[Len(stack')].k = "data"
    /\ stack'[Len(stack')].t = t

\* C9: on_data_read is not called for a transfer for which stop() has returned true
\* since the engine last took its handle in start().
C9_NoDataAfterStop ==
    [][\A t \in Transfers : OnDataReadCalled(t) => ~stopped[t]]_vars

\* C9 witness: a transfer was stopped inside its data callback and is still registered
\* (the engine has seen the write fail); on_data_read is running for the other transfer.
C9_Witness ==
    /\ Is("data")
    /\ \E t \in Transfers \ {Top.t} : stopped[t] /\ eng[t] = "failed"

\* C10 (as stated): when terminate() returns, the descriptor map and the active set are
\* empty and every socketinfo that was in the map and every transfer that was in the
\* active set has released its lock_.
C10_TerminateReleasesLocks ==
    [][terminate
       => /\ transfers' = {} /\ \A s \in Fds : sockets'[s] = NoSock
          /\ \A t \in transfers : ~tlock'[t]
          /\ \A s \in Fds : sockets[s] # NoSock => ~socks'[sockets[s]].lock]_vars

\* C11 (as stated): in every state a running transfer is registered with the engine and
\* is in the active set.
C11_RunningIsRegistered ==
    \A t \in Transfers : running[t] => (eng[t] # "out" /\ t \in transfers)

\* The socketinfo objects that are values of the descriptor map.
Mapped == {sockets[s] : s \in Fds} \ {NoSock}

\* C12 (as stated): in every state a socketinfo is a value of the descriptor map if and
\* only if its lock_ is set, and no socketinfo is the value of two descriptors.
C12_MappedIffLocked ==
    /\ \A o \in Socks : o \in Mapped <=> socks[o].lock
    /\ \A s1, s2 \in Fds : (sockets[s1] # NoSock /\ sockets[s1] = sockets[s2]) => s1 = s2

\* The messages of transfer t in the queue M.
MessagesOf(M, t) == SelectSeq(M, LAMBDA m : m[1] = t)

\* C13: when stop() returns true for a running transfer a, then for every other running
\* transfer b the running flag, the membership in the active set, the lock_, the
\* engine's registration and the queued completion message of b (hence its on_done) are
\* as before, and so are the descriptor map, the socketinfo objects with their
\* outstanding waits, and the timer.
C13_StopLeavesOthersAlone ==
    [][\A a \in Transfers :
        (stop(a) /\ running[a] /\ ev'.op = "stop" /\ ev'.t = a /\ ev'.ok)
        => /\ \A b \in Transfers \ {a} :
                running[b]
                => /\ running'[b]
                   /\ (b \in transfers' <=> b \in transfers)
                   /\ tlock'[b] = tlock[b]
                   /\ eng'[b] = eng[b]
                   /\ MessagesOf(msgs', b) = MessagesOf(msgs, b)
                   /\ notified'[b] = notified[b]
           /\ UNCHANGED <<sockets, socketp, socks, timer>>]_vars

\* C13 witness: stop() has just returned true for one transfer between two handlers of
\* the reactor; the other transfer is running, registered and in the active set, its
\* completion message is not yet queued, and a descriptor is in the map with a read
\* wait outstanding.
C13_Witness ==
    /\ Idle
    /\ ev.op = "stop" /\ ev.ok /\ ev.a = "immediate"
    /\ \E b \in Transfers \ {ev.t} :
         running[b] /\ b \in transfers /\ eng[b] = "active"
    /\ \E s \in Fds : sockets[s] # NoSock /\ socks[sockets[s]].pend["r"] = 1

\* C14: a start() that passes its first test and whose registration is rejected (by the
\* engine or because the bridge is terminated) returns false and leaves the active
\* set, the lock_ and the running flag as they were, the transfer not running; no
\* start() returns true or hands a handle to the engine once the bridge is terminated.
C14_RejectedStartChangesNothing ==
    [][\A t \in Transfers :
        /\ (start(t) /\ ev'.op = "start" /\ ev'.t = t /\ ev'.a = "rejected")
           => /\ ~ev'.ok /\ ~running'[t]
              /\ UNCHANGED <<running, transfers, tlock, eng, msgs, stack>>
        /\ (start(t) /\ terminated)
           => /\ ev'.op = "start" /\ ev'.t = t /\ ~ev'.ok
              /\ UNCHANGED <<running, transfers, tlock, eng, msgs, stack>>
        /\ (ev'.op = "start" /\ ev'.ok) => ~terminated']_vars

\* C14 witness: after terminate() the start() of a transfer that was idle (its bridge
\* reference is still set) has just been rejected, while the other transfer was in the
\* active set at terminate().
C14_Witness ==
    /\ terminated
    /\ ev.op = "start" /\ ev.a = "rejected" /\ ~ev.ok
    /\ impl[ev.t] /\ ~running[ev.t] /\ eng[ev.t] = "out"
    /\ \E u \in Transfers : ~impl[u]

\* async_wait_complete returns in this step after a successful drive call, for a wait
\* of direction d on socketinfo o, and o is registered (its lock_ is set).
CompletionReturns(o, d) ==
    Returns("pcm") /\ Top.o = o /\ Top.d = d /\ socks[o].lock

\* C15 (as stated): when async_wait_complete returns after a successful drive call for
\* a registered socketinfo, a wait of the direction that fired is outstanding if
\* running_ > 0, and no wait of the socketinfo is outstanding if running_ = 0.
C15_RearmsFiredDirection ==
    [][\A o \in Socks, d \in Dirs :
        CompletionReturns(o, d)
        => IF running_count > 0
           THEN socks'[o].pend[d] >= 1
           ELSE \A e \in Dirs : socks'[o].pend[e] = 0]_vars

\* C15 (amended): when async_wait_complete returns after a successful drive call for a
\* registered socketinfo and running_ > 0, the waits that are outstanding are those of
\* the request the socketinfo holds: at least one per requested direction and none of
\* another direction (so the direction that fired is covered unless the engine has
\* changed the request during the drive); when running_ = 0 no wait is outstanding.
C15_RearmsRequestedDirections ==
    [][\A o \in Socks, d \in Dirs :
        CompletionReturns(o, d)
        => /\ socks'[o].requested_action = socks[o].requested_action
           /\ IF running_count > 0
              THEN \A e \in Dirs :
                     IF e \in socks[o].requested_action
                     THEN socks'[o].pend[e] >= 1
                     ELSE socks'[o].pend[e] = 0
              ELSE \A e \in Dirs : socks'[o].pend[e] = 0]_vars

\* C15 witness: async_wait_complete has just returned for a read wait after a successful
\* drive in which the engine changed its request to watch-write: the socketinfo is
\* registered, running_ > 0, a write wait is outstanding and no read wait.
C15_Witness ==
    /\ ev.op = "async_wait_complete" /\ ev.a = "r" /\ ev.ok
    /\ running_count > 0
    /\ \E o \in Socks :
        /\ socks[o].lock /\ socks[o].requested_action = CURL_POLL_OUT
        /\ socks[o].pend = [e \in Dirs |-> IF e = "w" THEN 1 ELSE 0]

\* C16 (as stated): in every state at most one wait is outstanding per socketinfo and
\* direction.
C16_OneWaitPerDirection ==
    \A o \in Socks, d \in Dirs : socks[o].pend[d] <= 1

\* A socketinfo that socket_function has removed: it exists and its lock_ is reset.
Removed(o) == Allocated(socks, o) /\ removed(socks, o)

\* C17 (as stated): the socket callback with CURL_POLL_REMOVE for a descriptor that has
\* a socketinfo leaves no map entry for the descriptor, the lock_ of the socketinfo
\* reset and none of its waits outstanding; and no wait is ever outstanding on a
\* removed socketinfo.
C17_NoWaitOnRemoved ==
    /\ [][\A s \in Fds :
            (socket_function(s, CURL_POLL_REMOVE) /\ socketp[s] # NoSock)
            => /\ sockets'[s] = NoSock /\ socketp'[s] = NoSock
               /\ ~socks'[socketp[s]].lock
               /\ \A d \in Dirs : socks'[socketp[s]].pend[d] = 0]_vars
    /\ [](\A o \in Socks : Removed(o) => \A d \in Dirs : socks[o].pend[d] = 0)

\* The step is the delivery of a handler with operation_aborted.
CancelledCompletion ==
    ev'.op \in {"async_wait_complete", "timer_handler"} /\ ev'.a = "cancelled"

\* C18: async_wait_complete or timer_handler called with operation_aborted calls neither
\* the engine nor process_curl_messages nor a callback (the stack and the engine are
\* as before), issues no wait on a socket or on the timer, and leaves the descriptor
\* map, the active set and the running flags unchanged.
C18_CancelledCompletionIsNoOp ==
    [][CancelledCompletion
       => /\ UNCHANGED <<stack, engine_vars, bridge_vars, transfer_vars, history_vars>>
          /\ timer'.pend = timer.pend /\ timer'.ready = timer.ready
          /\ \A o \in Socks, d \in Dirs :
                socks'[o].pend[d] = socks[o].pend[d] /\ socks'[o].ready[d] = socks[o].ready[d]]_vars

\* C18 witness: the handler of a read wait that was aborted by a change of the request
\* has just been delivered; the socketinfo is in the map with its write wait outstanding
\* and a transfer is running.
C18_Witness ==
    /\ ev.op = "async_wait_complete" /\ ev.a = "cancelled"
    /\ \E t \in Transfers : running[t] /\ eng[t] = "active"
    /\ \E s \in Fds :
        /\ sockets[s] # NoSock
        /\ socks[sockets[s]].requested_action = CURL_POLL_OUT
        /\ socks[sockets[s]].pend["w"] = 1 /\ ~socks[sockets[s]].aborted

\* C19 (as stated): when socketinfo::create fails for a watch request, the socket
\* callback returns a value other than 0 (its success value) to the engine.
C19_SetupFailureIsReported ==
    (ev.op = "socket_function" /\ ev.a = "create failed") => ev.ret # 0

\* The engine is being driven with direction d of socketinfo o.
Driven(o, d) == Is("drive") /\ Top.o = o /\ Top.d = d

\* A wait for direction d of socketinfo o is outstanding or has completed with its
\* handler queued, and o is in the map with d among the requested directions.
Watched(o, d) ==
    /\ o \in Mapped
    /\ d \in socks[o].requested_action
    /\ socks[o].pend[d] > 0 \/ socks[o].ready[d] > 0

\* The socketinfo left the map, the engine no longer asks for d, or the engine reported
\* no running transfer and the waits were cancelled for that.
Released(o, d) ==
    \/ o \notin Mapped
    \/ d \notin socks[o].requested_action
    \/ running_count = 0 /\ socks[o].pend[d] = 0 /\ socks[o].ready[d] = 0

\* C20: readiness is not lost.  With descriptors that are ready again and again, a
\* direction d that is waited for on a socketinfo in the map leads to a drive of the
\* engine with d, unless the socketinfo is removed, the engine withdraws d or reports no
\* running transfer; the completions of the other direction, which cancel the wait for
\* d and issue it anew, do not prevent that.
C20_ReadinessNotLost ==
    \A o \in Socks, d \in Dirs : Watched(o, d) ~> (Driven(o, d) \/ Released(o, d))

\* C20 witness: the completion of a write wait has just returned with transfers
\* running, on a socketinfo whose request is both directions: it cancelled the read wait
\* (the aborted handler is queued) and issued it anew.
C20_Witness ==
    /\ ev.op = "async_wait_complete" /\ ev.a = "w" /\ ev.ok
    /\ running_count > 0
    /\ \E o \in Mapped :
        /\ socks[o].requested_action = CURL_POLL_INOUT
        /\ socks[o].aborted
        /\ socks[o].pend["r"] = 1

\* The calls of curl_multi_socket_action that have not returned.
DriveCalls == {i \in 1..Len(stack) : stack[i].k = "drive"}

\* C21 (as stated): curl_multi_socket_action is never called while a call of it is on
\* the call stack; a timer callback with timeout <= 0 that the engine issues inside a
\* drive does not call it.
C21_NoReentrantDrive == Cardinality(DriveCalls) <= 1

\* Transfer t is in the active set and added to the engine.
Registered(t) == t \in transfers /\ eng[t] # "out"

\* C22 (as stated): before terminate(), whenever nothing is on the call stack, running()
\* is true for a transfer exactly when it is in the active set and added to the engine.
C22_QuiescentConsistency ==
    (Idle /\ ~terminated) => \A t \in Transfers : running[t] <=> Registered(t)

\* C23 (as stated): once stop() has returned true for a transfer, on_done is not called
\* for it until a later start() of it has succeeded.
C23_NoOnDoneAfterStop ==
    [][\A t \in Transfers : OnDoneCalled(t) => ~stopped[t]]_vars

====
